---- MODULE Spec2Model ----
(***************************************************************************)
(* Verification model of the schema introspection agent                    *)
(* (src/src/agents/introspection_1.py): the configuration table, the two   *)
(* engine workers (MySQLIntrospector, SQLServerIntrospector) and the       *)
(* manager (IntrospectionAgent: constructor/router, run_scan, summary).    *)
(*                                                                         *)
(* Python values are modelled as follows.                                  *)
(*   dict          a TLA+ function, tagged PyDict(f) when it is the value  *)
(*                 a worker method returns                                 *)
(*   list          a TLA+ sequence, tagged PyList(s) likewise              *)
(*   None          PyNone, where a method's value is meant                 *)
(*   str           MySQL side: an atom ("film") or a tuple of atoms        *)
(*                 (<<"CREATE VIEW", "v1">>); SQL Server side: identifiers *)
(*                 are tuples of characters so that the qualified name     *)
(*                 f"{schema}.{table}" is a real concatenation             *)
(*   row[i]        Idx(row, i): Python indexes from 0                      *)
(*   exception     a tuple <<"DBAPIError", statement>> raised by the       *)
(*                 database collaborator                                   *)
(* The databases are external collaborators: their contents, and which of  *)
(* their statements fail, are drawn in Init and never change afterwards.   *)
(***************************************************************************)
EXTENDS Integers, Sequences, FiniteSets, TLC

VARIABLES
    db,       \* url -> contents of the database behind that url
    agent,    \* agent id -> fields of the IntrospectionAgent object
    scan,     \* agent id -> position and locals of its run_scan activation
    out,      \* agent id -> what its last run_scan returned, raised and printed
    ret,      \* the last direct call of a worker method and its outcome
    memo      \* the first direct call of a worker method and its outcome

vars == <<db, agent, scan, out, ret, memo>>

----------------------------------------------------------------------------
(* Bounds of the model                                                     *)

MaxViews == 2
MaxRoutines == 2
MaxTables == 2
MaxSchemas == 2
MaxObjects == 2
MaxRows == 2

----------------------------------------------------------------------------
(* Python helpers                                                          *)

None == "None"
NoExc == <<>>

EmptyDict == <<>>

\* d[k] = v
Put(d, k, v) == [x \in (DOMAIN d) \cup {k} |-> IF x = k THEN v ELSE d[x]]

\* d.update(e)
update(d, e) == [x \in (DOMAIN d) \cup (DOMAIN e) |-> IF x \in DOMAIN e THEN e[x] ELSE d[x]]

\* row[i], Python's indexes start at 0
Idx(row, i) == row[i + 1]

\* len(x) of a dict or of a list
len(x) == Cardinality(DOMAIN x)

\* bool(x) of an integer
bool(x) == x # 0

PyDict(f) == [kind |-> "dict", val |-> f]
PyList(s) == [kind |-> "list", val |-> s]
PyNone == [kind |-> "NoneType", val |-> <<>>]

Return(v) == [kind |-> "return", value |-> v, exc |-> NoExc]
Raise(e) == [kind |-> "raise", value |-> PyNone, exc |-> e]

\* the exception the database collaborator raises for a failing statement
Exc(stmt) == <<"DBAPIError", stmt>>

\* the first n elements of a sequence (all of it when it is shorter)
Prefix(s, n) == SubSeq(s, 1, IF n < Len(s) THEN n ELSE Len(s))

Min(a, b) == IF a < b THEN a ELSE b

----------------------------------------------------------------------------
(* 1. Configuration                                                        *)

MYSQL_URL == "mysql+mysqlconnector://sakila"
MSSQL_URL == "mssql+pyodbc://AdventureWorks"

DB_CONFIGS ==
    [k \in {"1", "2"} |->
        IF k = "1"
        THEN [name |-> "MySQL (Sakila)", type |-> "mysql", url |-> MYSQL_URL]
        ELSE [name |-> "SQL Server (AdventureWorks)", type |-> "mssql", url |-> MSSQL_URL]]

\* what a caller may pass as config_key: the menu's two keys and two others
ConfigKeys == {"1", "2", "3", "Q"}

----------------------------------------------------------------------------
(* The databases (external collaborators)                                  *)
(*                                                                         *)
(* A MySQL database: its name, what reflection lists (tables, views), what *)
(* the SHOW statements return, and which statements fail.  A SQL Server    *)
(* database: its schemas, tables, the rows of its system catalogs, and     *)
(* which statements fail.  `down` holds the statements that raise.         *)

\* all lists <<[name |-> pool[1], pos |-> 1, outcome |-> o1], ...>> of at most max entries
Lists(pool, max, outcomes) ==
    UNION {{[i \in 1..n |-> [name |-> pool[i], pos |-> i, outcome |-> o[i]]] :
                o \in [1..n -> outcomes]} : n \in 0..Min(max, Len(pool))}

\* all prefixes of at most max rows
Prefixes(rows, max) == {Prefix(rows, n) : n \in 0..Min(max, Len(rows))}

\* reflection of one table: what get_columns, get_pk_constraint,
\* get_foreign_keys and get_indexes return for it
INTEGER == [cls |-> "INTEGER", length |-> ""]
VARCHAR45 == [cls |-> "VARCHAR", length |-> "45"]

Column(n, t, nullable) == [name |-> n, type |-> t, nullable |-> nullable]
ForeignKey(cols, rschema, rtable) ==
    [name |-> "fk", constrained_columns |-> cols, referred_schema |-> rschema,
     referred_table |-> rtable, referred_columns |-> cols]
Index(n, cols, u) == [name |-> n, column_names |-> cols, unique |-> u]

TableInfo(pos) ==
    CASE pos = 1 ->
           [columns |-> <<Column("id", INTEGER, FALSE), Column("title", VARCHAR45, TRUE)>>,
            pk |-> [constrained_columns |-> <<"id">>, name |-> "PRIMARY"],
            fks |-> <<ForeignKey(<<"language_id">>, None, "language")>>,
            indexes |-> <<Index("idx_title", <<"title">>, FALSE),
                          Index("idx_fk", <<"language_id">>, TRUE)>>]
      [] pos = 2 ->
           [columns |-> <<Column("name", VARCHAR45, FALSE)>>,
            pk |-> [name |-> None],
            fks |-> <<>>,
            indexes |-> <<>>]
      [] OTHER ->
           [columns |-> <<Column("id", INTEGER, FALSE)>>,
            pk |-> [constrained_columns |-> <<>>, name |-> None],
            fks |-> <<ForeignKey(<<"a_id">>, "dbo", "a"), ForeignKey(<<"b_id">>, "dbo", "b")>>,
            indexes |-> <<Index("idx_id", <<"id">>, TRUE)>>]

\* ---- MySQL ----
MyTablePool == <<"film", "actor", "language", "city">>
MyViewPool == <<"v1", "v2", "v3", "v4">>
MyProcPool == <<"p1", "p2", "p3", "p4">>
MyFuncPool == <<"f1", "f2", "f3", "f4">>

TableOutcomes == {"ok", "nocols", "noidx"}
FetchOutcomes == {"row", "norow", "fail"}

\* rows of SHOW TRIGGERS: Trigger, Event, Table, Statement, Timing, Created
MyTriggerRows ==
    << <<"ins_film", "INSERT", "film", "BEGIN END", "AFTER", "2006">>,
       <<"upd_film", "UPDATE", "film", "SET x = 1", "BEFORE", "2006">>,
       <<"del_film", "DELETE", "film", "BEGIN END", "AFTER", "2006">> >>

\* rows of SHOW EVENTS: Db, Name, Definer, Time zone, Type, Execute at
MyEventRows ==
    << <<"sakila", "nightly", "root", "SYSTEM", "RECURRING", "">>,
       <<"sakila", "purge", "root", "UTC", "ONE TIME", "2030">>,
       <<"sakila", "weekly", "root", "UTC", "RECURRING", "">> >>

MyStatements ==
    {"inspect", "connect", "get_table_names", "get_view_names",
     "SHOW PROCEDURE STATUS", "SHOW FUNCTION STATUS", "SHOW TRIGGERS", "SHOW EVENTS"}

BaseMySQL ==
    [database |-> "sakila",
     tables |-> << [name |-> "film", pos |-> 1, outcome |-> "ok"],
                   [name |-> "actor", pos |-> 2, outcome |-> "ok"] >>,
     views |-> << [name |-> "v1", pos |-> 1, outcome |-> "row"] >>,
     procs |-> << [name |-> "p1", pos |-> 1, outcome |-> "row"] >>,
     funcs |-> << >>,
     triggers |-> Prefix(MyTriggerRows, 1),
     events |-> << >>,
     down |-> {}]

MySQLDatabases ==
    {[BaseMySQL EXCEPT !.tables = x] : x \in Lists(MyTablePool, MaxTables, TableOutcomes)}
    \cup {[BaseMySQL EXCEPT !.views = x] : x \in Lists(MyViewPool, MaxViews, FetchOutcomes)}
    \cup {[BaseMySQL EXCEPT !.procs = x] : x \in Lists(MyProcPool, MaxRoutines, FetchOutcomes)}
    \cup {[BaseMySQL EXCEPT !.funcs = x] : x \in Lists(MyFuncPool, MaxRoutines, FetchOutcomes)}
    \cup {[BaseMySQL EXCEPT !.triggers = x] : x \in Prefixes(MyTriggerRows, MaxRows)}
    \cup {[BaseMySQL EXCEPT !.events = x] : x \in Prefixes(MyEventRows, MaxRows)}
    \cup {[BaseMySQL EXCEPT !.down = {x}] : x \in MyStatements}

\* ---- SQL Server ----
\* identifiers are tuples of characters; a delimited identifier may hold a dot
SchemaPool == << <<"a">>, <<"a", ".", "b">>, <<"b">> >>

\* (schema, table) pairs in the order reflection lists them
MsTablePool ==
    << [schema |-> <<"a">>, name |-> <<"b", ".", "c">>],
       [schema |-> <<"a", ".", "b">>, name |-> <<"c">>],
       [schema |-> <<"a">>, name |-> <<"c">>],
       [schema |-> <<"b">>, name |-> <<"c">>] >>

\* (schema, object) pairs of sys.objects; a pair names one object of one type
MsObjectPool ==
    << [schema |-> <<"a">>, name |-> <<"b", ".", "c">>],
       [schema |-> <<"a", ".", "b">>, name |-> <<"c">>],
       [schema |-> <<"a">>, name |-> <<"f">>],
       [schema |-> <<"b">>, name |-> <<"f">>] >>

TypeCodes == {"V", "P", "TR", "FN", "IF", "TF"}

MsTableLists ==
    UNION {{[i \in 1..n |-> [schema |-> MsTablePool[i].schema, name |-> MsTablePool[i].name,
                             pos |-> i, outcome |-> o[i]]] :
                o \in [1..n -> TableOutcomes]} : n \in 0..Min(MaxTables, Len(MsTablePool))}

MsObjectLists ==
    UNION {{[i \in 1..n |-> [schema |-> MsObjectPool[i].schema, name |-> MsObjectPool[i].name,
                             type |-> t[i]]] :
                t \in [1..n -> TypeCodes]} : n \in 0..Min(MaxObjects, Len(MsObjectPool))}

\* m.definition of sys.sql_modules for an object
Definition(o) == <<"CREATE", o.type, o.schema, o.name>>

\* rows of sys.types: name, max_length, precision
MsTypeRows == << <<"Name", 100, 0>>, <<"Flag", 1, 1>>, <<"Phone", 50, 0>> >>
\* rows of sys.sequences: name, current_value
MsSequenceRows == << <<"seq_order", 7>>, <<"seq_id", 1>>, <<"seq_z", 0>> >>
\* rows of msdb.dbo.sysjobs: name, enabled, description
MsJobRows == << <<"backup", 1, "nightly">>, <<"reindex", 0, "">>, <<"purge", 2, "x">> >>
\* rows of sys.synonyms: name, base_object_name
MsSynonymRows == << <<"emp", "[hr].[Employee]">>, <<"ord", "[s].[Orders]">>, <<"x", "[a].[x]">> >>

MsStatements ==
    {"inspect", "connect", "get_schema_names", "get_table_names", "sys.types", "sys.sequences",
     "sys.sql_modules", "sysjobs", "sys.synonyms"}

BaseSQLServer ==
    [schemas |-> Prefix(SchemaPool, 2),
     tables |-> << [schema |-> <<"a">>, name |-> <<"c">>, pos |-> 3, outcome |-> "ok"] >>,
     objects |-> << [schema |-> <<"a">>, name |-> <<"f">>, type |-> "FN"] >>,
     types |-> Prefix(MsTypeRows, 1),
     sequences |-> << >>,
     jobs |-> Prefix(MsJobRows, 1),
     synonyms |-> << >>,
     down |-> {}]

SQLServerDatabases ==
    {[BaseSQLServer EXCEPT !.schemas = x] : x \in Prefixes(SchemaPool, MaxSchemas)}
    \cup {[BaseSQLServer EXCEPT !.tables = x] : x \in MsTableLists}
    \cup {[BaseSQLServer EXCEPT !.objects = x] : x \in MsObjectLists}
    \cup {[BaseSQLServer EXCEPT !.types = x] : x \in Prefixes(MsTypeRows, MaxRows)}
    \cup {[BaseSQLServer EXCEPT !.sequences = x] : x \in Prefixes(MsSequenceRows, MaxRows)}
    \cup {[BaseSQLServer EXCEPT !.jobs = x] : x \in Prefixes(MsJobRows, MaxRows)}
    \cup {[BaseSQLServer EXCEPT !.synonyms = x] : x \in Prefixes(MsSynonymRows, MaxRows)}
    \cup {[BaseSQLServer EXCEPT !.down = {x}] : x \in MsStatements}

\* the worlds the program may run in: one database varies, the other is the base one
Worlds ==
    {[u \in {MYSQL_URL, MSSQL_URL} |-> IF u = MYSQL_URL THEN m ELSE BaseSQLServer] :
        m \in MySQLDatabases}
    \cup
    {[u \in {MYSQL_URL, MSSQL_URL} |-> IF u = MYSQL_URL THEN BaseMySQL ELSE s] :
        s \in SQLServerDatabases}

----------------------------------------------------------------------------
(* 2. The contract: BaseIntrospector                                       *)

\* BaseIntrospector.__init__: the worker keeps the engine and an inspector on it
BaseIntrospector_init(class, engine) ==
    [class |-> class, engine |-> engine, inspector |-> engine]

NoWorker == [class |-> None, engine |-> None, inspector |-> None]

\* the database a worker's engine (and inspector) is bound to
Src(self) == db[self.engine]
Reflected(self) == db[self.inspector]

\* dict.get(key, default)
get(d, k, default) == IF k \in DOMAIN d THEN d[k] ELSE default

\* str(c['type']): the rendering of a column type
str(t) == IF t.length = "" THEN <<t.cls>> ELSE <<t.cls, "(", t.length, ")">>

\* the list comprehensions shared by the two workers' get_tables and get_indexes
ColumnList(columns) ==
    [j \in 1..Len(columns) |->
        [name |-> columns[j].name, type |-> str(columns[j].type),
         nullable |-> columns[j].nullable]]

IndexList(idxs) ==
    [j \in 1..Len(idxs) |->
        [name |-> idxs[j].name, columns |-> idxs[j].column_names, unique |-> idxs[j].unique]]

----------------------------------------------------------------------------
(* 3. MySQL worker                                                         *)

\* A deliberately wrong variant, kept to show the property below can fail: the worker keeps the list it returns and appends to it at each call
MySQLIntrospector_get_schemas_appending(self) ==
    IF ret.method = None THEN Return(PyList(<<Src(self).database>>))
    ELSE Return(PyList(<<Src(self).database, Src(self).database>>))

MySQLIntrospector_get_schemas(self) == Return(PyList(<<Src(self).database>>))
MySQLIntrospector_get_user_defined_types(self) == Return(PyDict(EmptyDict))
MySQLIntrospector_get_sequences(self) == Return(PyDict(EmptyDict))
\* A deliberately wrong variant, kept to show the property below can fail: the missing concept is reported as an empty list
MySQLIntrospector_get_synonyms_list(self) == Return(PyList(<<>>))

MySQLIntrospector_get_synonyms(self) == Return(PyDict(EmptyDict))

MySQLTableDescriptor(info) ==
    [type |-> "table",
     columns |-> ColumnList(info.columns),
     primary_key |-> get(info.pk, "constrained_columns", <<>>),
     foreign_keys |->
        [j \in 1..Len(info.fks) |->
            [referred_table |-> info.fks[j].referred_table,
             constrained_columns |-> info.fks[j].constrained_columns]]]

\* the loop of get_tables: no try, a table that cannot be read raises
RECURSIVE MySQLIntrospector_get_tables_loop(_, _, _)
MySQLIntrospector_get_tables_loop(tables, i, schema) ==
    IF i > Len(tables) THEN Return(PyDict(schema))
    ELSE IF tables[i].outcome = "nocols" THEN Raise(<<"DBAPIError", "get_columns", tables[i].name>>)
    ELSE MySQLIntrospector_get_tables_loop(tables, i + 1,
            Put(schema, tables[i].name, MySQLTableDescriptor(TableInfo(tables[i].pos))))

MySQLIntrospector_get_tables(self) ==
    IF "get_table_names" \in Reflected(self).down THEN Raise(Exc("get_table_names"))
    ELSE MySQLIntrospector_get_tables_loop(Reflected(self).tables, 1, EmptyDict)

RECURSIVE MySQLIntrospector_get_indexes_loop(_, _, _)
MySQLIntrospector_get_indexes_loop(tables, i, indexes) ==
    IF i > Len(tables) THEN Return(PyDict(indexes))
    ELSE IF tables[i].outcome = "noidx" THEN Raise(<<"DBAPIError", "get_indexes", tables[i].name>>)
    ELSE MySQLIntrospector_get_indexes_loop(tables, i + 1,
            Put(indexes, tables[i].name, IndexList(TableInfo(tables[i].pos).indexes)))

MySQLIntrospector_get_indexes(self) ==
    IF "get_table_names" \in Reflected(self).down THEN Raise(Exc("get_table_names"))
    ELSE MySQLIntrospector_get_indexes_loop(Reflected(self).tables, 1, EmptyDict)

\* the row of SHOW CREATE VIEW: View, Create View, character_set_client, collation
ShowCreateViewRow(view) == <<view, <<"CREATE VIEW", view>>, "utf8", "utf8_general_ci">>

\* A deliberately wrong variant, kept to show the property below can fail: a statement that returns no row stores the placeholder "Error", as get_procedures does
RECURSIVE MySQLIntrospector_get_views_loop_placeholder(_, _, _, _)
MySQLIntrospector_get_views_loop_placeholder(self, names, i, views) ==
    IF i > Len(names) THEN Return(PyDict(views))
    ELSE LET view == names[i].name IN
         IF "connect" \in Src(self).down
         THEN MySQLIntrospector_get_views_loop_placeholder(self, names, i + 1,
                  Put(views, view, <<"Error: ">> \o Exc("connect")))
         ELSE IF names[i].outcome = "fail"
         THEN MySQLIntrospector_get_views_loop_placeholder(self, names, i + 1,
                  Put(views, view, <<"Error: ">> \o <<"DBAPIError", "SHOW CREATE VIEW", view>>))
         ELSE MySQLIntrospector_get_views_loop_placeholder(self, names, i + 1,
                  Put(views, view,
                      IF names[i].outcome = "row" THEN Idx(ShowCreateViewRow(view), 1)
                      ELSE <<"Error">>))

\* the loop of get_views: connect and execute are inside the try; a statement
\* that returns no row stores nothing
RECURSIVE MySQLIntrospector_get_views_loop(_, _, _, _)
MySQLIntrospector_get_views_loop(self, names, i, views) ==
    IF i > Len(names) THEN Return(PyDict(views))
    ELSE LET view == names[i].name IN
         IF "connect" \in Src(self).down
         THEN MySQLIntrospector_get_views_loop(self, names, i + 1,
                  Put(views, view, <<"Error: ">> \o Exc("connect")))
         ELSE IF names[i].outcome = "fail"
         THEN MySQLIntrospector_get_views_loop(self, names, i + 1,
                  Put(views, view, <<"Error: ">> \o <<"DBAPIError", "SHOW CREATE VIEW", view>>))
         ELSE IF names[i].outcome = "row"
         THEN MySQLIntrospector_get_views_loop(self, names, i + 1,
                  Put(views, view, Idx(ShowCreateViewRow(view), 1)))
         ELSE MySQLIntrospector_get_views_loop(self, names, i + 1, views)

MySQLIntrospector_get_views(self) ==
    IF "get_view_names" \in Reflected(self).down THEN Raise(Exc("get_view_names"))
    ELSE MySQLIntrospector_get_views_loop(self, Reflected(self).views, 1, EmptyDict)

\* the rows of SHOW PROCEDURE STATUS / SHOW FUNCTION STATUS: Db, Name, Type, Definer
StatusRows(database, routines, type) ==
    [j \in 1..Len(routines) |-> <<database, routines[j].name, type, "root">>]

\* the row of SHOW CREATE PROCEDURE / FUNCTION: name, sql_mode, Create ..., charset
ShowCreateRoutineRow(type, name) == <<name, "STRICT", <<"CREATE", type, name>>, "utf8">>

\* how the fetch statement of an enumerated routine ends
FetchOutcome(routines, name) ==
    (CHOOSE r \in {routines[j] : j \in 1..Len(routines)} : r.name = name).outcome

\* the loop of get_procedures and get_functions: no try around the fetch
RECURSIVE MySQLIntrospector_routines_loop(_, _, _, _, _)
MySQLIntrospector_routines_loop(routines, type, rows, i, acc) ==
    IF i > Len(rows) THEN Return(PyDict(acc))
    ELSE LET name == Idx(rows[i], 1)
             outcome == FetchOutcome(routines, name)
         IN  IF outcome = "fail"
             THEN Raise(<<"DBAPIError", "SHOW CREATE", type, name>>)
             ELSE MySQLIntrospector_routines_loop(routines, type, rows, i + 1,
                     Put(acc, name,
                         IF outcome = "row"
                         THEN Idx(ShowCreateRoutineRow(type, name), 2)
                         ELSE <<"Error">>))

MySQLIntrospector_get_procedures(self) ==
    IF "connect" \in Src(self).down THEN Raise(Exc("connect"))
    ELSE IF "SHOW PROCEDURE STATUS" \in Src(self).down THEN Raise(Exc("SHOW PROCEDURE STATUS"))
    ELSE MySQLIntrospector_routines_loop(Src(self).procs, "PROCEDURE",
            StatusRows(Src(self).database, Src(self).procs, "PROCEDURE"), 1, EmptyDict)

MySQLIntrospector_get_functions(self) ==
    IF "connect" \in Src(self).down THEN Raise(Exc("connect"))
    ELSE IF "SHOW FUNCTION STATUS" \in Src(self).down THEN Raise(Exc("SHOW FUNCTION STATUS"))
    ELSE MySQLIntrospector_routines_loop(Src(self).funcs, "FUNCTION",
            StatusRows(Src(self).database, Src(self).funcs, "FUNCTION"), 1, EmptyDict)

RECURSIVE MySQLIntrospector_get_triggers_loop(_, _, _)
MySQLIntrospector_get_triggers_loop(trigs, i, triggers) ==
    IF i > Len(trigs) THEN Return(PyDict(triggers))
    ELSE LET row == trigs[i] IN
         MySQLIntrospector_get_triggers_loop(trigs, i + 1,
            Put(triggers, Idx(row, 0),
                [event |-> Idx(row, 1), table |-> Idx(row, 2), timing |-> Idx(row, 4),
                 statement |-> Idx(row, 3)]))

MySQLIntrospector_get_triggers(self) ==
    IF "connect" \in Src(self).down THEN Raise(Exc("connect"))
    ELSE IF "SHOW TRIGGERS" \in Src(self).down THEN Raise(Exc("SHOW TRIGGERS"))
    ELSE MySQLIntrospector_get_triggers_loop(Src(self).triggers, 1, EmptyDict)

RECURSIVE MySQLIntrospector_get_events_loop(_, _, _)
MySQLIntrospector_get_events_loop(evts, i, events) ==
    IF i > Len(evts) THEN Return(PyDict(events))
    ELSE LET row == evts[i] IN
         MySQLIntrospector_get_events_loop(evts, i + 1,
            Put(events, Idx(row, 1), [schedule |-> Idx(row, 3), status |-> Idx(row, 4)]))

MySQLIntrospector_get_events(self) ==
    IF "connect" \in Src(self).down THEN Raise(Exc("connect"))
    ELSE IF "SHOW EVENTS" \in Src(self).down THEN Raise(Exc("SHOW EVENTS"))
    ELSE MySQLIntrospector_get_events_loop(Src(self).events, 1, EmptyDict)

----------------------------------------------------------------------------
(* 4. SQL Server worker                                                    *)

SQLServerIntrospector_get_schemas(self) ==
    IF "get_schema_names" \in Reflected(self).down THEN Raise(Exc("get_schema_names"))
    ELSE Return(PyList(Reflected(self).schemas))

RECURSIVE SQLServerIntrospector_get_user_defined_types_loop(_, _, _)
SQLServerIntrospector_get_user_defined_types_loop(results, i, udts) ==
    IF i > Len(results) THEN Return(PyDict(udts))
    ELSE LET row == results[i] IN
         SQLServerIntrospector_get_user_defined_types_loop(results, i + 1,
            Put(udts, Idx(row, 0), [length |-> Idx(row, 1), precision |-> Idx(row, 2)]))

SQLServerIntrospector_get_user_defined_types(self) ==
    IF "connect" \in Src(self).down THEN Raise(Exc("connect"))
    ELSE IF "sys.types" \in Src(self).down THEN Raise(Exc("sys.types"))
    ELSE SQLServerIntrospector_get_user_defined_types_loop(Src(self).types, 1, EmptyDict)

\* the loop of get_sequences and get_synonyms: d[row[0]] = row[1]
RECURSIVE SQLServerIntrospector_pairs_loop(_, _, _)
SQLServerIntrospector_pairs_loop(results, i, acc) ==
    IF i > Len(results) THEN Return(PyDict(acc))
    ELSE SQLServerIntrospector_pairs_loop(results, i + 1,
            Put(acc, Idx(results[i], 0), Idx(results[i], 1)))

SQLServerIntrospector_get_sequences(self) ==
    IF "connect" \in Src(self).down THEN Raise(Exc("connect"))
    ELSE IF "sys.sequences" \in Src(self).down THEN Raise(Exc("sys.sequences"))
    ELSE SQLServerIntrospector_pairs_loop(Src(self).sequences, 1, EmptyDict)

\* f"{schema_name}.{table}"
full_name(schema_name, table) == schema_name \o <<".">> \o table

\* inspector.get_table_names(schema=schema_name)
get_table_names(source, schema_name) ==
    SelectSeq(source.tables, LAMBDA t : t.schema = schema_name)

SQLServerTableDescriptor(info) ==
    [type |-> "table",
     columns |-> ColumnList(info.columns),
     primary_key |-> get(info.pk, "constrained_columns", <<>>),
     foreign_keys |->
        [j \in 1..Len(info.fks) |->
            [referred_table |-> info.fks[j].referred_table,
             referred_schema |-> info.fks[j].referred_schema]]]

\* the inner loop of get_tables over the tables of one schema: a table whose
\* extraction throws is skipped (a warning is printed) and the loop goes on
RECURSIVE SQLServerIntrospector_get_tables_inner(_, _, _, _)
SQLServerIntrospector_get_tables_inner(schema_name, tables, i, schema) ==
    IF i > Len(tables) THEN schema
    ELSE IF tables[i].outcome = "nocols"
    THEN SQLServerIntrospector_get_tables_inner(schema_name, tables, i + 1, schema)
    ELSE SQLServerIntrospector_get_tables_inner(schema_name, tables, i + 1,
            Put(schema, full_name(schema_name, tables[i].name),
                SQLServerTableDescriptor(TableInfo(tables[i].pos))))

\* the outer loop of get_tables over all schemas
RECURSIVE SQLServerIntrospector_get_tables_loop(_, _, _, _)
SQLServerIntrospector_get_tables_loop(self, schemas, s, schema) ==
    IF s > Len(schemas) THEN Return(PyDict(schema))
    ELSE IF "get_table_names" \in Reflected(self).down THEN Raise(Exc("get_table_names"))
    ELSE SQLServerIntrospector_get_tables_loop(self, schemas, s + 1,
            SQLServerIntrospector_get_tables_inner(schemas[s],
                get_table_names(Reflected(self), schemas[s]), 1, schema))

SQLServerIntrospector_get_tables(self) ==
    LET schemas == SQLServerIntrospector_get_schemas(self) IN
    IF schemas.kind = "raise" THEN schemas
    ELSE SQLServerIntrospector_get_tables_loop(self, schemas.value.val, 1, EmptyDict)

RECURSIVE SQLServerIntrospector_get_indexes_inner(_, _, _, _)
SQLServerIntrospector_get_indexes_inner(schema_name, tables, i, indexes) ==
    IF i > Len(tables) THEN indexes
    ELSE IF tables[i].outcome = "noidx"
    THEN SQLServerIntrospector_get_indexes_inner(schema_name, tables, i + 1, indexes)
    ELSE SQLServerIntrospector_get_indexes_inner(schema_name, tables, i + 1,
            Put(indexes, full_name(schema_name, tables[i].name),
                IndexList(TableInfo(tables[i].pos).indexes)))

RECURSIVE SQLServerIntrospector_get_indexes_loop(_, _, _, _)
SQLServerIntrospector_get_indexes_loop(self, schemas, s, indexes) ==
    IF s > Len(schemas) THEN Return(PyDict(indexes))
    ELSE IF "get_table_names" \in Reflected(self).down THEN Raise(Exc("get_table_names"))
    ELSE SQLServerIntrospector_get_indexes_loop(self, schemas, s + 1,
            SQLServerIntrospector_get_indexes_inner(schemas[s],
                get_table_names(Reflected(self), schemas[s]), 1, indexes))

SQLServerIntrospector_get_indexes(self) ==
    LET schemas == SQLServerIntrospector_get_schemas(self) IN
    IF schemas.kind = "raise" THEN schemas
    ELSE SQLServerIntrospector_get_indexes_loop(self, schemas.value.val, 1, EmptyDict)

\* the rows of the query of _get_module: s.name + '.' + o.name, m.definition
\* for the objects of sys.objects whose type is type_filter
ModuleRows(source, type_filter) ==
    LET objs == SelectSeq(source.objects, LAMBDA o : o.type = type_filter) IN
    [j \in 1..Len(objs) |-> <<objs[j].schema \o <<".">> \o objs[j].name, Definition(objs[j])>>]

SQLServerIntrospector_get_module(self, type_filter) ==
    IF "connect" \in Src(self).down THEN Raise(Exc("connect"))
    ELSE IF "sys.sql_modules" \in Src(self).down THEN Raise(Exc("sys.sql_modules"))
    ELSE SQLServerIntrospector_pairs_loop(ModuleRows(Src(self), type_filter), 1, EmptyDict)

SQLServerIntrospector_get_views(self) == SQLServerIntrospector_get_module(self, "V")
SQLServerIntrospector_get_procedures(self) == SQLServerIntrospector_get_module(self, "P")
SQLServerIntrospector_get_triggers(self) == SQLServerIntrospector_get_module(self, "TR")

SQLServerIntrospector_get_functions(self) ==
    LET f == SQLServerIntrospector_get_module(self, "FN")
        g == SQLServerIntrospector_get_module(self, "IF")
        h == SQLServerIntrospector_get_module(self, "TF")
    IN  IF f.kind = "raise" THEN f
        ELSE IF g.kind = "raise" THEN g
        ELSE IF h.kind = "raise" THEN h
        ELSE Return(PyDict(update(update(f.value.val, g.value.val), h.value.val)))

RECURSIVE SQLServerIntrospector_get_events_loop(_, _, _)
SQLServerIntrospector_get_events_loop(results, i, jobs) ==
    IF i > Len(results) THEN Return(PyDict(jobs))
    ELSE LET row == results[i] IN
         SQLServerIntrospector_get_events_loop(results, i + 1,
            Put(jobs, Idx(row, 0), [enabled |-> bool(Idx(row, 1)), description |-> Idx(row, 2)]))

SQLServerIntrospector_get_events(self) ==
    IF "connect" \in Src(self).down THEN Raise(Exc("connect"))
    ELSE IF "sysjobs" \in Src(self).down THEN Raise(Exc("sysjobs"))
    ELSE SQLServerIntrospector_get_events_loop(Src(self).jobs, 1, EmptyDict)

SQLServerIntrospector_get_synonyms(self) ==
    IF "connect" \in Src(self).down THEN Raise(Exc("connect"))
    ELSE IF "sys.synonyms" \in Src(self).down THEN Raise(Exc("sys.synonyms"))
    ELSE SQLServerIntrospector_pairs_loop(Src(self).synonyms, 1, EmptyDict)

----------------------------------------------------------------------------
(* Dispatch of a method call on a worker (self.worker.get_...())           *)

Methods ==
    {"get_schemas", "get_user_defined_types", "get_sequences", "get_tables", "get_indexes",
     "get_views", "get_procedures", "get_functions", "get_triggers", "get_events",
     "get_synonyms"}

Invoke(self, m) ==
    IF self.class = "MySQLIntrospector" THEN
        CASE m = "get_schemas" -> MySQLIntrospector_get_schemas(self)
          [] m = "get_user_defined_types" -> MySQLIntrospector_get_user_defined_types(self)
          [] m = "get_sequences" -> MySQLIntrospector_get_sequences(self)
          [] m = "get_tables" -> MySQLIntrospector_get_tables(self)
          [] m = "get_indexes" -> MySQLIntrospector_get_indexes(self)
          [] m = "get_views" -> MySQLIntrospector_get_views(self)
          [] m = "get_procedures" -> MySQLIntrospector_get_procedures(self)
          [] m = "get_functions" -> MySQLIntrospector_get_functions(self)
          [] m = "get_triggers" -> MySQLIntrospector_get_triggers(self)
          [] m = "get_events" -> MySQLIntrospector_get_events(self)
          [] m = "get_synonyms" -> MySQLIntrospector_get_synonyms(self)
    ELSE
        CASE m = "get_schemas" -> SQLServerIntrospector_get_schemas(self)
          [] m = "get_user_defined_types" -> SQLServerIntrospector_get_user_defined_types(self)
          [] m = "get_sequences" -> SQLServerIntrospector_get_sequences(self)
          [] m = "get_tables" -> SQLServerIntrospector_get_tables(self)
          [] m = "get_indexes" -> SQLServerIntrospector_get_indexes(self)
          [] m = "get_views" -> SQLServerIntrospector_get_views(self)
          [] m = "get_procedures" -> SQLServerIntrospector_get_procedures(self)
          [] m = "get_functions" -> SQLServerIntrospector_get_functions(self)
          [] m = "get_triggers" -> SQLServerIntrospector_get_triggers(self)
          [] m = "get_events" -> SQLServerIntrospector_get_events(self)
          [] m = "get_synonyms" -> SQLServerIntrospector_get_synonyms(self)

----------------------------------------------------------------------------
(* 5. The manager: IntrospectionAgent                                      *)

Agents == {"a1", "a2"}

\* an IntrospectionAgent that has not been constructed
NoAgent ==
    [state |-> "absent", config_key |-> None, db_type |-> None, db_name |-> None,
     engine |-> None, worker |-> NoWorker, touched |-> {}, exc |-> NoExc]

\* create_engine(url): the engine is a lazy handle on the database behind url
create_engine(url) == url

\* A deliberately wrong variant, kept to show the property below can fail: the two branches of the router construct each other's worker
Router_swapped(db_type, engine) ==
    IF db_type = "mysql" THEN
        IF "inspect" \in db[engine].down THEN Raise(Exc("inspect"))
        ELSE Return(BaseIntrospector_init("SQLServerIntrospector", engine))
    ELSE IF db_type = "mssql" THEN
        IF "inspect" \in db[engine].down THEN Raise(Exc("inspect"))
        ELSE Return(BaseIntrospector_init("MySQLIntrospector", engine))
    ELSE Raise(<<"ValueError", "Unknown DB Type", db_type>>)

\* the router of __init__ (lines 252-257); constructing a worker runs
\* BaseIntrospector.__init__, whose inspect(engine) connects to the database
Router(db_type, engine) ==
    IF db_type = "mysql" THEN
        IF "inspect" \in db[engine].down THEN Raise(Exc("inspect"))
        ELSE Return(BaseIntrospector_init("MySQLIntrospector", engine))
    ELSE IF db_type = "mssql" THEN
        IF "inspect" \in db[engine].down THEN Raise(Exc("inspect"))
        ELSE Return(BaseIntrospector_init("SQLServerIntrospector", engine))
    ELSE Raise(<<"ValueError", "Unknown DB Type", db_type>>)

\* IntrospectionAgent.__init__(config_key): the object it leaves behind
IntrospectionAgent_init(config_key) ==
    IF config_key \notin DOMAIN DB_CONFIGS
    THEN [NoAgent EXCEPT !.state = "failed", !.config_key = config_key,
                         !.exc = <<"ValueError", "Invalid Configuration Key">>]
    ELSE LET config == DB_CONFIGS[config_key]
             engine == create_engine(config.url)
             routed == Router(config.type, engine)
             known == config.type \in {"mysql", "mssql"}
         IN  [state |-> IF routed.kind = "return" THEN "ready" ELSE "failed",
              config_key |-> config_key,
              db_type |-> config.type,
              db_name |-> config.name,
              engine |-> engine,
              worker |-> IF routed.kind = "return" THEN routed.value ELSE NoWorker,
              touched |-> IF known THEN {"inspect"} ELSE {},
              exc |-> routed.exc]

\* A deliberately wrong variant, kept to show the property below can fail: the structure layer (schemas, tables, indexes) is scanned first
ScanOrder_structure_first ==
    <<"get_schemas", "get_tables", "get_indexes", "get_user_defined_types", "get_sequences",
      "get_views", "get_procedures", "get_functions", "get_triggers", "get_events",
      "get_synonyms">>

\* the order in which the dict literal of run_scan evaluates its eleven calls
ScanOrder ==
    <<"get_schemas", "get_user_defined_types", "get_sequences", "get_tables", "get_indexes",
      "get_views", "get_procedures", "get_functions", "get_triggers", "get_events",
      "get_synonyms">>

NoScan == [pc |-> 0, calls |-> <<>>, results |-> EmptyDict]
NoOut == [kind |-> "none", report |-> None, summary |-> None, exc |-> NoExc]
NoCall == [agent |-> None, method |-> None, later |-> FALSE, result |-> None]

\* scan_results as run_scan assembles it from the eleven results
scan_results(self, r) ==
    [metadata |-> [database |-> self.db_name, type |-> self.db_type],
     schemas |-> r["get_schemas"],
     dependencies |->
        [user_defined_types |-> r["get_user_defined_types"],
         sequences |-> r["get_sequences"]],
     tables |-> r["get_tables"],
     indexes |-> r["get_indexes"],
     logic |->
        [views |-> r["get_views"],
         procedures |-> r["get_procedures"],
         functions |-> r["get_functions"],
         triggers |-> r["get_triggers"]],
     warnings |->
        [events |-> r["get_events"],
         synonyms |-> r["get_synonyms"]]]

\* _print_pretty_summary(data): the numbers it prints
IntrospectionAgent_print_pretty_summary(self, data) ==
    LET events_count == len(data.warnings.events.val)
        synonyms_count == len(data.warnings.synonyms.val)
    IN  [title |-> self.db_name,
         schemas |-> len(data.schemas.val),
         schemas_head |-> Prefix(data.schemas.val, 3),
         tables |-> len(data.tables.val),
         indexes |-> len(data.indexes.val),
         sequences |-> len(data.dependencies.sequences.val),
         views |-> len(data.logic.views.val),
         procedures |-> len(data.logic.procedures.val),
         functions |-> len(data.logic.functions.val),
         triggers |-> len(data.logic.triggers.val),
         events |-> IF events_count > 0 THEN events_count ELSE None,
         synonyms |-> IF synonyms_count > 0 THEN synonyms_count ELSE None]

\* what run_scan hands back when its eleven calls have returned
IntrospectionAgent_run_scan_result(self, r) ==
    LET data == scan_results(self, r) IN
    [kind |-> "return", report |-> data,
     summary |-> IntrospectionAgent_print_pretty_summary(self, data), exc |-> NoExc]

\* A deliberately wrong variant, kept to show the property below can fail: run_scan catches the exception and raises one of its own
IntrospectionAgent_run_scan_raise_wrapped(e) ==
    [kind |-> "raise", report |-> None, summary |-> None,
     exc |-> <<"RuntimeError", "scan failed">>]

\* what the caller of run_scan sees when an extraction call raises e
IntrospectionAgent_run_scan_raise(e) ==
    [kind |-> "raise", report |-> None, summary |-> None, exc |-> e]

\* run_scan run from its first call to its end with nothing else running:
\* the eleven calls in order, then the summary and the return, or the
\* exception of the first call that raises
RECURSIVE IntrospectionAgent_run_scan_from(_, _, _)
IntrospectionAgent_run_scan_from(self, i, results) ==
    IF i > Len(ScanOrder) THEN IntrospectionAgent_run_scan_result(self, results)
    ELSE LET r == Invoke(self.worker, ScanOrder[i]) IN
         IF r.kind = "raise" THEN IntrospectionAgent_run_scan_raise(r.exc)
         ELSE IntrospectionAgent_run_scan_from(self, i + 1, Put(results, ScanOrder[i], r.value))

IntrospectionAgent_run_scan(self) == IntrospectionAgent_run_scan_from(self, 1, EmptyDict)

----------------------------------------------------------------------------
(* Actions                                                                 *)

\* agent = IntrospectionAgent(config_key)
Construct(a, config_key) ==
    /\ agent[a].state = "absent"
    /\ agent' = [agent EXCEPT ![a] = IntrospectionAgent_init(config_key)]
    /\ UNCHANGED <<db, scan, out, ret, memo>>

\* agent.run_scan() is entered
RunScanBegin(a) ==
    /\ agent[a].state = "ready"
    /\ scan[a].pc = 0
    /\ scan' = [scan EXCEPT ![a] = [pc |-> 1, calls |-> <<>>, results |-> EmptyDict]]
    /\ out' = [out EXCEPT ![a] = NoOut]
    /\ UNCHANGED <<db, agent, ret, memo>>

\* A deliberately wrong variant, kept to show the property below can fail: scan_results is one dict shared by all agents, so a returned value is stored into every agent's results
RunScanCall_shared_results(a) ==
    /\ scan[a].pc \in 1..Len(ScanOrder)
    /\ LET m == ScanOrder[scan[a].pc]
           r == Invoke(agent[a].worker, m)
       IN  IF r.kind = "raise"
           THEN /\ scan' = [scan EXCEPT ![a] = [pc |-> 0, calls |-> Append(scan[a].calls, m),
                                                 results |-> EmptyDict]]
                /\ out' = [out EXCEPT ![a] = IntrospectionAgent_run_scan_raise(r.exc)]
           ELSE /\ scan' = [b \in Agents |->
                              IF b = a
                              THEN [pc |-> scan[a].pc + 1, calls |-> Append(scan[a].calls, m),
                                    results |-> Put(scan[a].results, m, r.value)]
                              ELSE [scan[b] EXCEPT !.results = Put(scan[b].results, m, r.value)]]
                /\ out' = out
    /\ UNCHANGED <<db, agent, ret, memo>>

\* the next of the eleven extraction calls of run_scan, run to its end
RunScanCall(a) ==
    /\ scan[a].pc \in 1..Len(ScanOrder)
    /\ LET m == ScanOrder[scan[a].pc]
           r == Invoke(agent[a].worker, m)
       IN  IF r.kind = "raise"
           THEN /\ scan' = [scan EXCEPT ![a] = [pc |-> 0, calls |-> Append(scan[a].calls, m),
                                                 results |-> EmptyDict]]
                /\ out' = [out EXCEPT ![a] = IntrospectionAgent_run_scan_raise(r.exc)]
           ELSE /\ scan' = [scan EXCEPT ![a] = [pc |-> scan[a].pc + 1,
                                                 calls |-> Append(scan[a].calls, m),
                                                 results |-> Put(scan[a].results, m, r.value)]]
                /\ out' = out
    /\ UNCHANGED <<db, agent, ret, memo>>

\* the summary is printed and run_scan returns scan_results
RunScanReturn(a) ==
    /\ scan[a].pc = Len(ScanOrder) + 1
    /\ out' = [out EXCEPT ![a] = IntrospectionAgent_run_scan_result(agent[a], scan[a].results)]
    /\ scan' = [scan EXCEPT ![a] = [scan[a] EXCEPT !.pc = 0, !.results = EmptyDict]]
    /\ UNCHANGED <<db, agent, ret, memo>>

\* a caller invokes one method of the worker directly; `later` tells whether
\* another direct call came before it, and memo keeps the first call made
Call(a, m) ==
    /\ agent[a].state = "ready"
    /\ scan[a].pc = 0
    /\ ret' = [agent |-> a, method |-> m, later |-> (ret.method # None),
               result |-> Invoke(agent[a].worker, m)]
    /\ memo' = IF memo.method = None THEN ret' ELSE memo
    /\ UNCHANGED <<db, agent, scan, out>>

----------------------------------------------------------------------------
(* Specifications                                                          *)

\* the manager: agents are constructed and scan
Init ==
    /\ db \in Worlds
    /\ agent = [a \in Agents |-> NoAgent]
    /\ scan = [a \in Agents |-> NoScan]
    /\ out = [a \in Agents |-> NoOut]
    /\ ret = NoCall
    /\ memo = NoCall

Next ==
    \/ \E a \in Agents, k \in ConfigKeys : Construct(a, k)
    \/ \E a \in Agents : RunScanBegin(a)
    \/ \E a \in Agents : RunScanCall(a)
    \/ \E a \in Agents : RunScanReturn(a)

Spec == Init /\ [][Next]_vars

\* the workers: one constructed agent whose worker's methods are called in any order
InitCalls ==
    /\ db \in Worlds
    /\ \E k \in DOMAIN DB_CONFIGS :
          agent = [a \in Agents |-> IF a = "a1" THEN IntrospectionAgent_init(k) ELSE NoAgent]
    /\ scan = [a \in Agents |-> NoScan]
    /\ out = [a \in Agents |-> NoOut]
    /\ ret = NoCall
    /\ memo = NoCall

NextCalls == \E m \in Methods : Call("a1", m)

SpecCalls == InitCalls /\ [][NextCalls]_vars

----------------------------------------------------------------------------
(* 6. The earlier program, introspection.py: a MySQL worker of five        *)
(* methods and an agent that always connects to the MySQL database         *)

\* get_tables of introspection.py: the descriptor also holds the indexes, and
\* the foreign keys as reflection returns them
introspection_MySQLTableDescriptor(info) ==
    [type |-> "table",
     columns |-> ColumnList(info.columns),
     primary_key |-> get(info.pk, "constrained_columns", <<>>),
     foreign_keys |-> info.fks,
     indexes |-> [j \in 1..Len(info.indexes) |->
                    [name |-> info.indexes[j].name, columns |-> info.indexes[j].column_names]]]

RECURSIVE introspection_MySQLIntrospector_get_tables_loop(_, _, _)
introspection_MySQLIntrospector_get_tables_loop(table_names, i, schema) ==
    IF i > Len(table_names) THEN Return(PyDict(schema))
    ELSE IF table_names[i].outcome = "nocols"
    THEN Raise(<<"DBAPIError", "get_columns", table_names[i].name>>)
    ELSE IF table_names[i].outcome = "noidx"
    THEN Raise(<<"DBAPIError", "get_indexes", table_names[i].name>>)
    ELSE introspection_MySQLIntrospector_get_tables_loop(table_names, i + 1,
            Put(schema, table_names[i].name,
                introspection_MySQLTableDescriptor(TableInfo(table_names[i].pos))))

introspection_MySQLIntrospector_get_tables(self) ==
    IF "get_table_names" \in Reflected(self).down THEN Raise(Exc("get_table_names"))
    ELSE introspection_MySQLIntrospector_get_tables_loop(Reflected(self).tables, 1, EmptyDict)

\* the loop of get_views: only the statement is inside the try; a statement
\* that returns no row stores nothing
RECURSIVE introspection_MySQLIntrospector_get_views_loop(_, _, _)
introspection_MySQLIntrospector_get_views_loop(view_names, i, views) ==
    IF i > Len(view_names) THEN Return(PyDict(views))
    ELSE LET view == view_names[i].name IN
         IF view_names[i].outcome = "fail"
         THEN introspection_MySQLIntrospector_get_views_loop(view_names, i + 1,
                 Put(views, view,
                     <<"Error extracting view: ">> \o <<"DBAPIError", "SHOW CREATE VIEW", view>>))
         ELSE IF view_names[i].outcome = "row"
         THEN introspection_MySQLIntrospector_get_views_loop(view_names, i + 1,
                 Put(views, view, Idx(ShowCreateViewRow(view), 1)))
         ELSE introspection_MySQLIntrospector_get_views_loop(view_names, i + 1, views)

introspection_MySQLIntrospector_get_views(self) ==
    IF "get_view_names" \in Reflected(self).down THEN Raise(Exc("get_view_names"))
    ELSE IF "connect" \in Src(self).down THEN Raise(Exc("connect"))
    ELSE introspection_MySQLIntrospector_get_views_loop(Reflected(self).views, 1, EmptyDict)

\* the loop of get_procedures and get_functions: the fetch is inside a try; a
\* fetch that returns no row stores nothing
RECURSIVE introspection_MySQLIntrospector_routines_loop(_, _, _, _, _)
introspection_MySQLIntrospector_routines_loop(routines, type, rows, i, acc) ==
    IF i > Len(rows) THEN Return(PyDict(acc))
    ELSE LET name == Idx(rows[i], 1)
             outcome == FetchOutcome(routines, name)
         IN  IF outcome = "fail"
             THEN introspection_MySQLIntrospector_routines_loop(routines, type, rows, i + 1,
                     Put(acc, name,
                         <<"Error extracting ", type, ": ">>
                            \o <<"DBAPIError", "SHOW CREATE", type, name>>))
             ELSE IF outcome = "row"
             THEN introspection_MySQLIntrospector_routines_loop(routines, type, rows, i + 1,
                     Put(acc, name, Idx(ShowCreateRoutineRow(type, name), 2)))
             ELSE introspection_MySQLIntrospector_routines_loop(routines, type, rows, i + 1, acc)

introspection_MySQLIntrospector_get_procedures(self) ==
    IF "connect" \in Src(self).down THEN Raise(Exc("connect"))
    ELSE IF "SHOW PROCEDURE STATUS" \in Src(self).down THEN Raise(Exc("SHOW PROCEDURE STATUS"))
    ELSE introspection_MySQLIntrospector_routines_loop(Src(self).procs, "PROCEDURE",
            StatusRows(Src(self).database, Src(self).procs, "PROCEDURE"), 1, EmptyDict)

introspection_MySQLIntrospector_get_functions(self) ==
    IF "connect" \in Src(self).down THEN Raise(Exc("connect"))
    ELSE IF "SHOW FUNCTION STATUS" \in Src(self).down THEN Raise(Exc("SHOW FUNCTION STATUS"))
    ELSE introspection_MySQLIntrospector_routines_loop(Src(self).funcs, "FUNCTION",
            StatusRows(Src(self).database, Src(self).funcs, "FUNCTION"), 1, EmptyDict)

\* f"CREATE TRIGGER {trigger_name} {row[4]} {row[1]} ON {row[2]} FOR EACH ROW {row[3]}"
definition_full(trigger_name, row) ==
    <<"CREATE TRIGGER ", trigger_name, " ", Idx(row, 4), " ", Idx(row, 1), " ON ",
      Idx(row, 2), " FOR EACH ROW ", Idx(row, 3)>>

RECURSIVE introspection_MySQLIntrospector_get_triggers_loop(_, _, _)
introspection_MySQLIntrospector_get_triggers_loop(results, i, triggers) ==
    IF i > Len(results) THEN Return(PyDict(triggers))
    ELSE LET row == results[i]
             trigger_name == Idx(row, 0)
         IN  introspection_MySQLIntrospector_get_triggers_loop(results, i + 1,
                Put(triggers, trigger_name,
                    [event |-> Idx(row, 1), table |-> Idx(row, 2), timing |-> Idx(row, 4),
                     statement |-> Idx(row, 3),
                     definition_full |-> definition_full(trigger_name, row)]))

introspection_MySQLIntrospector_get_triggers(self) ==
    IF "connect" \in Src(self).down THEN Raise(Exc("connect"))
    ELSE IF "SHOW TRIGGERS" \in Src(self).down THEN Raise(Exc("SHOW TRIGGERS"))
    ELSE introspection_MySQLIntrospector_get_triggers_loop(Src(self).triggers, 1, EmptyDict)

introspection_Methods ==
    {"get_tables", "get_views", "get_procedures", "get_functions", "get_triggers"}

introspection_Invoke(self, m) ==
    CASE m = "get_tables" -> introspection_MySQLIntrospector_get_tables(self)
      [] m = "get_views" -> introspection_MySQLIntrospector_get_views(self)
      [] m = "get_procedures" -> introspection_MySQLIntrospector_get_procedures(self)
      [] m = "get_functions" -> introspection_MySQLIntrospector_get_functions(self)
      [] m = "get_triggers" -> introspection_MySQLIntrospector_get_triggers(self)

\* IntrospectionAgent.__init__() of introspection.py: the driver of the MySQL
\* url holds 'mysql', so the MySQL worker is constructed on its engine
introspection_IntrospectionAgent_init ==
    LET engine == create_engine(MYSQL_URL)
        failed == "inspect" \in db[engine].down
    IN  [state |-> IF failed THEN "failed" ELSE "ready",
         config_key |-> None,
         db_type |-> "mysql+mysqlconnector",
         db_name |-> None,
         engine |-> engine,
         worker |-> IF failed THEN NoWorker
                    ELSE BaseIntrospector_init("introspection.MySQLIntrospector", engine),
         touched |-> {"inspect"},
         exc |-> IF failed THEN Exc("inspect") ELSE NoExc]

\* a caller invokes one method of the worker of introspection.py directly
introspection_Call(a, m) ==
    /\ agent[a].state = "ready"
    /\ ret' = [agent |-> a, method |-> m, later |-> (ret.method # None),
               result |-> introspection_Invoke(agent[a].worker, m)]
    /\ memo' = IF memo.method = None THEN ret' ELSE memo
    /\ UNCHANGED <<db, agent, scan, out>>

\* the worker of introspection.py: its five methods are called in any order
introspection_InitCalls ==
    /\ db \in Worlds
    /\ agent = [a \in Agents |-> IF a = "a1" THEN introspection_IntrospectionAgent_init
                                 ELSE NoAgent]
    /\ scan = [a \in Agents |-> NoScan]
    /\ out = [a \in Agents |-> NoOut]
    /\ ret = NoCall
    /\ memo = NoCall

introspection_NextCalls == \E m \in introspection_Methods : introspection_Call("a1", m)

introspection_SpecCalls == introspection_InitCalls /\ [][introspection_NextCalls]_vars

----------------------------------------------------------------------------
(* Properties of the manager (specification Spec)                          *)

\* C1: an agent constructed with a supported selector holds exactly one worker
\* whose class matches the selector (mysql -> MySQLIntrospector, mssql ->
\* SQLServerIntrospector) and that is bound to the configured database; the
\* only way such a construction fails is the collaborator's connection error.
\* With an unrecognized selector the constructor always fails with the
\* configuration error (ValueError), no worker exists, the database has not
\* been touched and no extraction call has been made.
C1_RouterResolves ==
    \A a \in Agents :
        LET ag == agent[a] IN
        /\ ag.state = "ready" =>
              /\ ag.config_key \in {"1", "2"}
              /\ ag.db_type = "mysql" => ag.worker.class = "MySQLIntrospector"
              /\ ag.db_type = "mssql" => ag.worker.class = "SQLServerIntrospector"
              /\ ag.config_key = "1" => ag.db_type = "mysql" /\ ag.worker.engine = MYSQL_URL
              /\ ag.config_key = "2" => ag.db_type = "mssql" /\ ag.worker.engine = MSSQL_URL
              /\ ag.worker.inspector = ag.worker.engine
        /\ (ag.state # "absent" /\ ag.config_key \notin {"1", "2"}) =>
              /\ ag.state = "failed"
              /\ ag.exc = <<"ValueError", "Invalid Configuration Key">>
              /\ ag.worker = NoWorker
              /\ ag.touched = {}
              /\ scan[a] = NoScan
              /\ out[a].kind = "none"
        /\ (ag.state = "failed" /\ ag.config_key \in {"1", "2"}) =>
              /\ ag.exc = <<"DBAPIError", "inspect">>
              /\ ag.worker = NoWorker
              /\ scan[a] = NoScan

\* C1 witness: one agent routed to the SQL Server worker, one to the MySQL
\* worker ... and this one refused for an unrecognized selector
C1_Witness ==
    /\ agent["a1"].state = "ready"
    /\ agent["a1"].worker.class = "SQLServerIntrospector"
    /\ agent["a2"].state = "failed"
    /\ agent["a2"].config_key = "3"

\* the order of the eleven extraction calls, as the specification gives it
C2_Order ==
    <<"get_schemas", "get_user_defined_types", "get_sequences", "get_tables", "get_indexes",
      "get_views", "get_procedures", "get_functions", "get_triggers", "get_events",
      "get_synonyms">>

\* C2: in every run of run_scan the extraction calls made so far are a prefix
\* of the fixed order schemas, types, sequences, tables, indexes, views,
\* procedures, functions, triggers, events, synonyms; every call made has run
\* to completion (its result is stored) before the next one is made, and the
\* summary is produced only once all eleven have completed.
C2_FixedOrder ==
    \A a \in Agents :
        LET sc == scan[a] IN
        /\ Len(sc.calls) <= Len(C2_Order)
        /\ sc.calls = Prefix(C2_Order, Len(sc.calls))
        /\ sc.pc # 0 =>
              /\ Len(sc.calls) = sc.pc - 1
              /\ DOMAIN sc.results = {sc.calls[i] : i \in 1..Len(sc.calls)}
              /\ out[a].kind = "none"
        /\ out[a].kind = "return" => sc.calls = C2_Order

\* C2 witness: a scan that is past its tenth call, beside one that has printed
\* its summary
C2_Witness ==
    /\ scan["a1"].pc = 11
    /\ out["a2"].kind = "return"
    /\ out["a2"].summary.title = "SQL Server (AdventureWorks)"

ReportSections ==
    {"metadata", "schemas", "dependencies", "tables", "indexes", "logic", "warnings"}

\* C6: run_scan returns a Report only after all eleven extraction calls have
\* completed, and the Report holds every section; when an extraction call
\* raises, the caller of run_scan gets that very exception, the raising call is
\* the last call of the scan and no Report (not even a partial one) is returned;
\* while a scan is under way the caller holds nothing.
C6_ReportCompleteOrRaise ==
    \A a \in Agents :
        LET sc == scan[a]
            o == out[a]
        IN
        /\ sc.pc # 0 => o.kind = "none"
        /\ o.kind = "return" =>
              /\ Len(sc.calls) = 11
              /\ \A i \in 1..11 : Invoke(agent[a].worker, sc.calls[i]).kind = "return"
              /\ o.exc = NoExc
              /\ DOMAIN o.report = ReportSections
              /\ DOMAIN o.report.metadata = {"database", "type"}
              /\ DOMAIN o.report.dependencies = {"user_defined_types", "sequences"}
              /\ DOMAIN o.report.logic = {"views", "procedures", "functions", "triggers"}
              /\ DOMAIN o.report.warnings = {"events", "synonyms"}
              /\ o.report.schemas = Invoke(agent[a].worker, "get_schemas").value
              /\ o.report.dependencies.user_defined_types =
                    Invoke(agent[a].worker, "get_user_defined_types").value
              /\ o.report.dependencies.sequences = Invoke(agent[a].worker, "get_sequences").value
              /\ o.report.tables = Invoke(agent[a].worker, "get_tables").value
              /\ o.report.indexes = Invoke(agent[a].worker, "get_indexes").value
              /\ o.report.logic.views = Invoke(agent[a].worker, "get_views").value
              /\ o.report.logic.procedures = Invoke(agent[a].worker, "get_procedures").value
              /\ o.report.logic.functions = Invoke(agent[a].worker, "get_functions").value
              /\ o.report.logic.triggers = Invoke(agent[a].worker, "get_triggers").value
              /\ o.report.warnings.events = Invoke(agent[a].worker, "get_events").value
              /\ o.report.warnings.synonyms = Invoke(agent[a].worker, "get_synonyms").value
        /\ o.kind = "raise" =>
              /\ sc.pc = 0
              /\ o.report = None
              /\ o.summary = None
              /\ Len(sc.calls) \in 1..11
              /\ \A i \in 1..(Len(sc.calls) - 1) :
                    Invoke(agent[a].worker, sc.calls[i]).kind = "return"
              /\ Invoke(agent[a].worker, sc.calls[Len(sc.calls)]).kind = "raise"
              /\ o.exc = Invoke(agent[a].worker, sc.calls[Len(sc.calls)]).exc
        /\ (o.kind = "none" /\ sc.pc = 0) => sc.calls = <<>>

\* C6 witness: one scan ended by the exception of its ninth call (get_triggers),
\* after eight calls had returned, beside a scan that returned its Report
C6_Witness ==
    /\ out["a1"].kind = "raise"
    /\ Len(scan["a1"].calls) = 9
    /\ out["a1"].exc = <<"DBAPIError", "SHOW TRIGGERS">>
    /\ out["a2"].kind = "return"

\* the number of IndexDescriptors in the indexes mapping of a Report
RECURSIVE TotalIndexes(_, _)
TotalIndexes(indexes, keys) ==
    IF keys = {} THEN 0
    ELSE LET k == CHOOSE x \in keys : TRUE IN
         Len(indexes[k]) + TotalIndexes(indexes, keys \ {k})

\* C10: after a successful scan the summary's table, view, procedure, function
\* and trigger counts equal the number of entries of the Report's mappings
\* (an error placeholder counts as one entry), and the index count equals the
\* number of indexes in the Report.
C10_SummaryCounts ==
    \A a \in Agents :
        out[a].kind = "return" =>
            LET r == out[a].report
                s == out[a].summary
            IN  /\ s.tables = Cardinality(DOMAIN r.tables.val)
                /\ s.views = Cardinality(DOMAIN r.logic.views.val)
                /\ s.procedures = Cardinality(DOMAIN r.logic.procedures.val)
                /\ s.functions = Cardinality(DOMAIN r.logic.functions.val)
                /\ s.triggers = Cardinality(DOMAIN r.logic.triggers.val)
                /\ s.indexes = TotalIndexes(r.indexes.val, DOMAIN r.indexes.val)

----------------------------------------------------------------------------
(* Properties of the workers (specification SpecCalls)                     *)

\* the worker whose methods are called, and the two databases
TheWorker == agent["a1"].worker
MySQLSource == db[MYSQL_URL]
SQLServerSource == db[MSSQL_URL]

Range(seq) == {seq[i] : i \in 1..Len(seq)}

\* an error placeholder string stored in place of a definition
IsErrorPlaceholder(text) == Len(text) >= 1 /\ text[1] \in {"Error: ", "Error"}

\* C3: for the MySQL worker, whatever views reflection lists and whichever of
\* their SHOW CREATE VIEW statements fail, get_views does not raise and returns
\* a mapping whose keys are exactly the reflected view names: an error
\* placeholder for each failing view, the definition text for each other view.
C3_ViewsKeepEveryKey ==
    (/\ ret.method = "get_views"
     /\ TheWorker.class = "MySQLIntrospector"
     /\ "get_view_names" \notin MySQLSource.down) =>
        /\ ret.result.kind = "return"
        /\ ret.result.value.kind = "dict"
        /\ DOMAIN ret.result.value.val = {v.name : v \in Range(MySQLSource.views)}
        /\ \A v \in Range(MySQLSource.views) :
              IF v.outcome = "fail" \/ "connect" \in MySQLSource.down
              THEN IsErrorPlaceholder(ret.result.value.val[v.name])
              ELSE ret.result.value.val[v.name] = <<"CREATE VIEW", v.name>>

\* C4: for the MySQL worker, when the fetch statement of an enumerated routine
\* fails, get_procedures and get_functions do not raise: the mapping returned
\* has one key per enumerated routine and holds an error string under the name
\* of each routine whose fetch failed.
C4_RoutinesKeepEveryKey ==
    (/\ ret.method \in {"get_procedures", "get_functions"}
     /\ TheWorker.class = "MySQLIntrospector"
     /\ MySQLSource.down = {}) =>
        LET routines == IF ret.method = "get_procedures" THEN MySQLSource.procs
                        ELSE MySQLSource.funcs
        IN  /\ ret.result.kind = "return"
            /\ DOMAIN ret.result.value.val = {r.name : r \in Range(routines)}
            /\ \A r \in Range(routines) :
                  r.outcome = "fail" => IsErrorPlaceholder(ret.result.value.val[r.name])

\* C5: for the SQL Server worker, whatever schemas and tables reflection lists
\* and whichever tables' structure extraction throws, get_tables does not raise
\* and its mapping omits the key schema.table of every failing table and holds
\* the key schema.table of every other reflected table.
C5_TablesOmitOnlyFailing ==
    (/\ ret.method = "get_tables"
     /\ TheWorker.class = "SQLServerIntrospector"
     /\ SQLServerSource.down = {}) =>
        /\ ret.result.kind = "return"
        /\ \A t \in Range(SQLServerSource.tables) :
              t.schema \in Range(SQLServerSource.schemas) =>
                 LET key == t.schema \o <<".">> \o t.name IN
                 IF t.outcome = "nocols"
                 THEN key \notin DOMAIN ret.result.value.val
                 ELSE key \in DOMAIN ret.result.value.val

\* C7 (as amended): a worker method that returns never returns null; ten of
\* the eleven methods return a mapping and get_schemas returns a sequence of
\* schema names; the MySQL worker's get_user_defined_types, get_sequences and
\* get_synonyms always return, and return the empty mapping.
C7_MappingsExceptSchemas ==
    ret.method # None =>
        /\ ret.result.kind = "return" =>
              /\ ret.result.value.kind # "NoneType"
              /\ ret.method = "get_schemas" => ret.result.value.kind = "list"
              /\ ret.method # "get_schemas" => ret.result.value.kind = "dict"
        /\ (/\ TheWorker.class = "MySQLIntrospector"
            /\ ret.method \in {"get_user_defined_types", "get_sequences", "get_synonyms"}) =>
              /\ ret.result.kind = "return"
              /\ ret.result.value = [kind |-> "dict", val |-> <<>>]

\* C7 (as claimed): every one of the eleven methods, get_schemas included,
\* returns a mapping.
C7_AllMappings ==
    (ret.method # None /\ ret.result.kind = "return") => ret.result.value.kind = "dict"

\* C7 witness: the MySQL worker returned the empty mapping from get_synonyms,
\* after get_schemas had returned its list
C7_Witness ==
    /\ TheWorker.class = "MySQLIntrospector"
    /\ memo.method = "get_schemas"
    /\ memo.result.value.kind = "list"
    /\ ret.method = "get_synonyms"
    /\ ret.result.kind = "return"

FunctionTypeCodes == {"FN", "IF", "TF"}

\* C8: for the SQL Server worker, get_functions returns the union of the FN, IF
\* and TF results: each function of the three type codes is in the mapping with
\* its own definition, and the mapping has as many entries as the three
\* per-type-code results together.
C8_FunctionsUnion ==
    (/\ ret.method = "get_functions"
     /\ TheWorker.class = "SQLServerIntrospector"
     /\ ret.result.kind = "return") =>
        LET result == ret.result.value.val
            size(t) == Cardinality(DOMAIN SQLServerIntrospector_get_module(TheWorker, t).value.val)
        IN  /\ Cardinality(DOMAIN result) = size("FN") + size("IF") + size("TF")
            /\ \A o \in Range(SQLServerSource.objects) :
                  o.type \in FunctionTypeCodes =>
                     LET key == o.schema \o <<".">> \o o.name IN
                     /\ key \in DOMAIN result
                     /\ result[key] = <<"CREATE", o.type, o.schema, o.name>>

Rendered(t) ==
    IF t = INTEGER THEN <<"INTEGER">> ELSE <<"VARCHAR", "(", "45", ")">>

\* descriptor d is the TableDescriptor of a table whose reflection is info
IsDescriptorOf(d, info, with_schema) ==
    /\ d.type = "table"
    /\ Len(d.columns) = Len(info.columns)
    /\ \A j \in 1..Len(info.columns) :
          d.columns[j] = [name |-> info.columns[j].name,
                          type |-> Rendered(info.columns[j].type),
                          nullable |-> info.columns[j].nullable]
    /\ d.primary_key = IF "constrained_columns" \in DOMAIN info.pk
                       THEN info.pk.constrained_columns ELSE <<>>
    /\ Len(d.foreign_keys) = Len(info.fks)
    /\ \A j \in 1..Len(info.fks) :
          /\ "referred_table" \in DOMAIN d.foreign_keys[j]
          /\ d.foreign_keys[j].referred_table = info.fks[j].referred_table
          /\ "constrained_columns" \in DOMAIN d.foreign_keys[j]
          /\ d.foreign_keys[j].constrained_columns = info.fks[j].constrained_columns
          /\ with_schema =>
                /\ "referred_schema" \in DOMAIN d.foreign_keys[j]
                /\ d.foreign_keys[j].referred_schema = info.fks[j].referred_schema

\* C11: for both workers, every TableDescriptor returned by get_tables has
\* type "table", the reflected columns in order (name, rendered type,
\* nullable), the primary-key columns (empty when the table has none) and one
\* foreign_keys entry per reflected foreign key holding the referred table and
\* the constrained columns (and the referred schema for the SQL Server worker).
C11_TableDescriptorShape ==
    (ret.method = "get_tables" /\ ret.result.kind = "return") =>
        LET sqlserver == TheWorker.class = "SQLServerIntrospector"
            tables == IF sqlserver THEN SQLServerSource.tables ELSE MySQLSource.tables
            key(t) == IF sqlserver THEN t.schema \o <<".">> \o t.name ELSE t.name
        IN  \A k \in DOMAIN ret.result.value.val :
               \E t \in Range(tables) :
                  /\ key(t) = k
                  /\ t.outcome # "nocols"
                  /\ IsDescriptorOf(ret.result.value.val[k], TableInfo(t.pos), sqlserver)

\* the type codes a logic method of the SQL Server worker asks for
ModuleTypeCodes(m) ==
    CASE m = "get_views" -> {"V"}
      [] m = "get_procedures" -> {"P"}
      [] m = "get_triggers" -> {"TR"}
      [] m = "get_functions" -> FunctionTypeCodes

\* C12: for the SQL Server worker, get_tables and get_indexes go through every
\* schema reflection returns and key each table schema.table, and the logic
\* methods key each object schema.object; keys are unique per object: the
\* mapping has one key for each (schema, name) pair extracted, so that no
\* entry is overwritten by the entry of another pair.
C12_QualifiedKeysUnique ==
    (/\ TheWorker.class = "SQLServerIntrospector"
     /\ ret.method # None
     /\ ret.result.kind = "return") =>
        LET result == ret.result.value.val
            skipped == IF ret.method = "get_tables" THEN "nocols" ELSE "noidx"
            tables == {t \in Range(SQLServerSource.tables) :
                          /\ t.schema \in Range(SQLServerSource.schemas)
                          /\ t.outcome # skipped}
            objects == {o \in Range(SQLServerSource.objects) :
                          o.type \in ModuleTypeCodes(ret.method)}
        IN  /\ ret.method \in {"get_tables", "get_indexes"} =>
                  /\ DOMAIN result = {t.schema \o <<".">> \o t.name : t \in tables}
                  /\ Cardinality(DOMAIN result) = Cardinality(tables)
            /\ ret.method \in {"get_views", "get_procedures", "get_triggers", "get_functions"} =>
                  /\ DOMAIN result = {o.schema \o <<".">> \o o.name : o \in objects}
                  /\ Cardinality(DOMAIN result) = Cardinality(objects)

\* the two MySQL workers of the repository
MySQLWorkers == {"MySQLIntrospector", "introspection.MySQLIntrospector"}

\* C13: for the MySQL worker, get_triggers returns one entry per row of SHOW
\* TRIGGERS under the trigger's name, holding the row's event, table, timing
\* and statement, and a full CREATE TRIGGER statement put together from the
\* name, timing, event, table and statement.
C13_TriggersWithFullDefinition ==
    (/\ ret.method = "get_triggers"
     /\ TheWorker.class \in MySQLWorkers
     /\ MySQLSource.down = {}) =>
        /\ ret.result.kind = "return"
        /\ DOMAIN ret.result.value.val = {row[1] : row \in Range(MySQLSource.triggers)}
        /\ \A row \in Range(MySQLSource.triggers) :
              LET entry == ret.result.value.val[row[1]] IN
              /\ entry.event = row[2]
              /\ entry.table = row[3]
              /\ entry.statement = row[4]
              /\ entry.timing = row[5]
              /\ "definition_full" \in DOMAIN entry
              /\ entry.definition_full =
                    <<"CREATE TRIGGER ", row[1], " ", row[5], " ", row[2], " ON ", row[3],
                      " FOR EACH ROW ", row[4]>>

----------------------------------------------------------------------------
(* Isolation of scans (specification Spec)                                 *)

\* C14: two scans on different databases share no mutable state: however
\* their extraction calls interleave, what a scan has collected so far is what
\* its own worker returned, what it hands back (the Report and its summary,
\* or the exception) is what it hands back when run alone, and every agent
\* still holds the selector, name, source handle and worker it was
\* constructed with from the configuration table.
C14_ScansIsolated ==
    \A a \in Agents, b \in Agents :
        (a # b /\ agent[a].engine # agent[b].engine) =>
            /\ scan[a].pc > 0 =>
                  \A m \in DOMAIN scan[a].results :
                     scan[a].results[m] = Invoke(agent[a].worker, m).value
            /\ out[a].kind # "none" => out[a] = IntrospectionAgent_run_scan(agent[a])
            /\ agent[a].state # "absent" =>
                  /\ agent[a] = IntrospectionAgent_init(agent[a].config_key)
                  /\ agent[a].config_key \in DOMAIN DB_CONFIGS =>
                        /\ agent[a].db_type = DB_CONFIGS[agent[a].config_key].type
                        /\ agent[a].db_name = DB_CONFIGS[agent[a].config_key].name
                        /\ agent[a].engine = DB_CONFIGS[agent[a].config_key].url

\* C14 witness: the scan of the MySQL agent has returned its Report while the
\* scan of the SQL Server agent is under way, five of its calls made
C14_Witness ==
    /\ agent["a1"].db_type = "mysql"
    /\ agent["a2"].db_type = "mssql"
    /\ out["a1"].kind = "return"
    /\ out["a1"].report.tables.val # <<>>
    /\ scan["a2"].pc = 6
    /\ Len(scan["a2"].calls) = 5
    /\ DOMAIN scan["a2"].results = {ScanOrder[i] : i \in 1..5}

----------------------------------------------------------------------------
(* Views the MySQL worker leaves out (specification SpecCalls)             *)

\* C15: for the MySQL worker, get_views returns whenever the view names can
\* be reflected; the keys of its mapping are reflected view names, and a view
\* whose SHOW CREATE VIEW runs and returns no row has no key (no definition
\* and no error placeholder), so the mapping then has fewer keys than there
\* are reflected views.
C15_ViewsWithoutRowAbsent ==
    (/\ ret.method = "get_views"
     /\ TheWorker.class \in MySQLWorkers
     /\ "get_view_names" \notin MySQLSource.down) =>
        LET views == Range(MySQLSource.views)
            norow == {v \in views : v.outcome = "norow"}
            connected == "connect" \notin MySQLSource.down
        IN  /\ (TheWorker.class = "MySQLIntrospector" \/ connected) =>
                  ret.result.kind = "return"
            /\ ret.result.kind = "return" =>
                  /\ ret.result.value.kind = "dict"
                  /\ DOMAIN ret.result.value.val \subseteq {v.name : v \in views}
                  /\ connected =>
                        /\ \A v \in norow : v.name \notin DOMAIN ret.result.value.val
                        /\ \A v \in views \ norow : v.name \in DOMAIN ret.result.value.val
                        /\ norow # {} =>
                              Cardinality(DOMAIN ret.result.value.val) < Cardinality(views)

\* C15 witness: of two reflected views the first has a definition and the
\* second, whose statement returned no row, is missing from the mapping
C15_Witness ==
    /\ TheWorker.class = "MySQLIntrospector"
    /\ ret.method = "get_views"
    /\ ret.result.kind = "return"
    /\ Len(MySQLSource.views) = 2
    /\ MySQLSource.views[1].outcome = "row"
    /\ MySQLSource.views[2].outcome = "norow"
    /\ DOMAIN ret.result.value.val = {MySQLSource.views[1].name}

====
